---- MODULE Spec2Model ----
(***************************************************************************)
(* A model of the streaming core of dlna-sharing:                          *)
(*   - discover_dlna_devices      (src/dlna_sharing.py)                    *)
(*   - DLNAControlPoint           (src/streaming.py)                       *)
(*   - HLSStreamer and its Flask routes (src/streaming.py)                 *)
(*   - StreamingScreen start/stop (src/dlna_sharing.py)                    *)
(* Each part has its own specification over the shared variables; the      *)
(* variables of the other parts keep their initial values.                 *)
(***************************************************************************)
EXTENDS Integers, Sequences, FiniteSets, TLC

None == "None"

(***************************************************************************)
(* Bounds of the model.                                                    *)
(***************************************************************************)
\* number of distinct LOCATION urls that answer a scan
NumLocations == 2
\* largest scan timeout tried, in seconds
MaxTimeout == 2
\* service blocks in a device-description document
MaxServices == 2
\* SOAP requests posted by one Control Point
MaxPosts == 2
\* arguments in the argument map of one SOAP request
MaxArgs == 2
\* presses of the Stop key or button on one StreamingScreen
MaxStopRequests == 2
\* renderers that answer the scans of the device-selection screen
NumRenderers == 2
\* presses of the Refresh key or button on one DeviceSelectionScreen
MaxRefreshes == 1
\* calls of start() on one HLSStreamer object
MaxStarts == 2

(***************************************************************************)
(* Program constants of discover_dlna_devices (seconds).                   *)
(***************************************************************************)
RecvTimeout == 2
FetchTimeout == 3
\* start(): `for i in range(5)`
StartPolls == 5
\* app.pop_screen() calls at the end of action_stop_streaming
PopScreens == 3

(***************************************************************************)
(* State.                                                                  *)
(***************************************************************************)
\* discover_dlna_devices
VARIABLES
    d_pc,             \* "call" | "loop" | "fetch" | "done": position in the function
    timeout,          \* the timeout argument
    has_callback,     \* whether a callback argument was given
    elapsed,          \* time.time() - start_time, in seconds
    devices,          \* the local list devices
    seen_locations,   \* the local set seen_locations
    pending,          \* the locals location and server while the description is fetched
    on_found,         \* the callback invocations: <<[device, all_devices], ...>>
    heard,            \* history: per url, how many datagrams announced it (2 = several)
    d_result,         \* the returned list, None until the function returns
    d_error,          \* history: whether a socket error occurred, and devices at the last one
    d_discarded       \* history: whether a datagram without LOCATION came, and devices then

dvars == <<d_pc, timeout, has_callback, elapsed, devices, seen_locations,
           pending, on_found, heard, d_result, d_error, d_discarded>>

\* DLNAControlPoint
VARIABLES
    cp_pc,            \* "new" before __init__, "ready" after it
    cp_document,      \* what requests.get(device_location) gave: [ok, doc]
    control_url,      \* self.control_url
    cp_unresolved,    \* history: __init__ ended with control_url unset
    posts,            \* number of requests.post calls issued
    last_call         \* the last action call: [action, uri, protocol_info, ok, status], or NoCall

cvars == <<cp_pc, cp_document, control_url, cp_unresolved, posts, last_call>>

\* the Flask routes of HLSStreamer and the output directory
VARIABLES
    hls_files,        \* the names of the files in self.hls_dir (/tmp/dlna_hls)
    route_mpegts,     \* whether the listening app registered the /stream.ts route
    last_request,     \* the file name of the last GET and whether it existed then
    last_response     \* the response to the last GET

hvars == <<hls_files, route_mpegts, last_request, last_response>>

\* the current HLSStreamer object, its encoder child and its threads
VARIABLES
    s_state,          \* "absent" | "ready": the current object
    use_mpegts,       \* self.use_mpegts
    running,          \* self.running
    ffmpeg_process,   \* whether self.ffmpeg_process is set (a Popen handle)
    enc,              \* that child process: "none" | "alive" | "exited"
    stdin_closed,     \* whether self.ffmpeg_process.stdin was closed
    server_thread,    \* whether self.server_thread was started
    port_bound,       \* whether a Flask server thread of this process listens on the port
    capture,          \* the capture thread: "none" | "check" | "write" | "blocked" | "ended"
    orphan_alive,     \* an encoder child of an earlier object is still running
    spawn_files,      \* history: "none", or what Popen found in the directory: "clean" | "stale"
    stream_ready,     \* history: start() saw stream.m3u8 while polling
    stop_called,      \* history: stop() was called on the current object
    stop_returned,    \* history: a stop() call on the current object returned normally
    term_survived     \* history: the child outlived terminate() and wait(timeout=5)

svars == <<s_state, use_mpegts, running, ffmpeg_process, enc, stdin_closed,
           server_thread, port_bound, capture, orphan_alive, spawn_files, stream_ready,
           stop_called, stop_returned, term_survived>>

\* the tasks that call into the HLSStreamer object
VARIABLES
    t_pc,             \* per task: the position inside the method it runs, or "idle"
    t_ret,            \* per task: where the caller continues when the method returns
    t_glob,           \* per task: the files the running glob() listed and not yet unlinked
    t_raised,         \* per task: the method that last raised out to the caller, or None
    polls             \* the loop variable i of start()'s wait loop

tvars == <<t_pc, t_ret, t_glob, t_raised, polls>>

\* StreamingScreen
VARIABLES
    screen,           \* "device" (DeviceSelectionScreen on top) | "constructed" | "mounted" |
                      \* "stopped" (popped after a stop request, nothing to stream from)
    scr_streamer,     \* whether self.streamer is set
    scr_dlna,         \* whether self.dlna is set
    streaming,        \* self.streaming
    stop_requests     \* how many times action_stop_streaming was invoked

rvars == <<screen, scr_streamer, scr_dlna, streaming, stop_requests>>

\* the SOAP envelope of _send_soap_request
VARIABLES
    envelope          \* the last envelope built: [action, arguments, body], or NoEnvelope

evars == <<envelope>>

\* DeviceSelectionScreen, the device cache of DLNAShareApp and the two scans
VARIABLES
    device_cache,     \* DLNAShareApp._device_cache
    cache_lock,       \* the tasks inside `with DLNAShareApp._cache_lock`
    pre_pc,           \* the prediscover thread: "idle" | "scan" | "cb_acquire" | "cb_write" |
                      \* "cb_release" | "fin_acquire" | "fin_write" | "fin_release" | "done"
    pre_devices,      \* the devices list of its discover_dlna_devices call
    disc_pc,          \* the discover thread of the screen: "idle" | "scan" | "cb_wait" |
                      \* "fin_wait" | "fin_flag" | "done"
    disc_devices,     \* the devices list of its discover_dlna_devices call
    sel_pc,           \* the UI task: "window" | "m_copy" | "m_release" | "ready" | "pushed"
    self_devices,     \* DeviceSelectionScreen.devices
    devices_writer,   \* the task that made the last assignment to self.devices
    discovering,      \* DeviceSelectionScreen.discovering
    list_items,       \* the rows of the ListView, in order
    list_index,       \* list_view.index (counted from 0), or NoIndex
    selected_device,  \* DeviceSelectionScreen.selected_device
    shown_selected,   \* the row the ListView showed at its index when
                      \* action_start_streaming assigned selected_device
    last_step,        \* the snapshot of the scan step that completed last, of either scan
    refreshes,        \* Refresh requests so far
    status            \* the text of the #status widget of the screen

lvars == <<device_cache, cache_lock, pre_pc, pre_devices, disc_pc, disc_devices, sel_pc,
           self_devices, devices_writer, discovering, list_items, list_index,
           selected_device, shown_selected, last_step, refreshes, status>>

\* HLSStreamer.start() called again
VARIABLES
    start_calls       \* history: the calls of start() on the current object so far

nvars == <<start_calls>>

vars == <<dvars, cvars, hvars, svars, tvars, rvars, evars, lvars, nvars>>

\* what the actions of one part leave alone
dothers == <<cvars, hvars, svars, tvars, rvars, evars, lvars, nvars>>
cothers == <<dvars, hvars, svars, tvars, rvars, evars, lvars, nvars>>
hothers == <<dvars, cvars, svars, tvars, rvars, evars, lvars, nvars>>
\* the session actions change hls_files and route_mpegts of the server part
sothers == <<dvars, cvars, last_request, last_response, rvars, evars, lvars, nvars>>
\* the screen actions call into the session object and the control point
rothers == <<dvars, last_request, last_response, evars, lvars, nvars>>
eothers == <<dvars, cvars, hvars, svars, tvars, rvars, lvars, nvars>>
lothers == <<dvars, cvars, hvars, svars, tvars, rvars, evars, nvars>>

(***************************************************************************)
(* Part 1: discover_dlna_devices                                           *)
(* The debug counter response_count only feeds a log line and is left out. *)
(***************************************************************************)

Urls == 1..NumLocations
NoLocation == [url |-> 0, pad |-> FALSE]
\* a raw LOCATION header value: the url, with or without surrounding blanks
RawLocations == [url : Urls, pad : BOOLEAN]
\* the text between the tags of an element of the description document: None
\* when the document has no such element, "" for an element without text
Contents(text) == {None, "", text}
\* what the description fetch of a new location gives: whether requests.get
\* returned, and the <friendlyName> and <modelName> elements of the document
Descriptions ==
    [ok : {TRUE}, friendlyName : Contents("tv"), modelName : Contents("model")]
        \cup {[ok |-> FALSE, friendlyName |-> None, modelName |-> None]}
Datagrams == [location : RawLocations \cup {NoLocation}, server : {None, "srv"}]

\* re.search(r'LOCATION:\s*(.+?)[\r\n]', ...) : whether the datagram has the header;
\* the mutant takes every datagram for one with the header
LocationMatchAlways(dg) == TRUE
LocationMatch(dg) == dg.location # NoLocation
\* location_match.group(1).strip()
Strip(raw) == raw.url
\* server_match.group(1).strip() if server_match else "Unknown"
ServerOf(dg) == IF dg.server = None THEN "Unknown" ELSE dg.server
\* re.search(r'<tag>(.+?)</tag>', text): the group needs one character at
\* least, an element without text is not matched
ElementMatch(content) == content \notin {None, ""}
\* f"Device at {addr[0]}"
Placeholder == "Device at addr"
\* the name of a device, lines 180-204: the friendlyName match, else the modelName
\* match, else the placeholder; the placeholder too when the fetch raised. The
\* mutant tries modelName first
NameOfModelFirst(desc) ==
    IF ~desc.ok THEN Placeholder
    ELSE IF ElementMatch(desc.modelName) THEN desc.modelName
    ELSE IF ElementMatch(desc.friendlyName) THEN desc.friendlyName
    ELSE Placeholder
NameOf(desc) ==
    IF ~desc.ok THEN Placeholder
    ELSE IF ElementMatch(desc.friendlyName) THEN desc.friendlyName
    ELSE IF ElementMatch(desc.modelName) THEN desc.modelName
    ELSE Placeholder

DLNADevice(name, location, server) ==
    [name |-> name, location |-> location, server |-> server]

\* `while time.time() - start_time < timeout`
LoopGuardInclusive(e, t) == e <= t
LoopGuard(e, t) == e < t

\* `if location in seen_locations: continue`
IsDuplicateNever(location, seen) == FALSE
IsDuplicate(location, seen) == location \in seen

\* no socket error occurred so far
NoError == [occurred |-> FALSE, devices |-> <<>>]

\* no datagram without a LOCATION header came so far
NoDiscard == [occurred |-> FALSE, devices |-> <<>>]

\* `return devices`, line 236; the mutant returns an empty list
ReturnedEmpty(list) == <<>>
Returned(list) == list

DInit ==
    /\ d_pc = "call"
    /\ timeout \in 1..MaxTimeout
    /\ has_callback \in BOOLEAN
    /\ elapsed = 0
    /\ devices = <<>>
    /\ seen_locations = {}
    /\ pending = None
    /\ on_found = <<>>
    /\ heard = [u \in Urls |-> 0]
    /\ d_result = None
    /\ d_error = NoError
    /\ d_discarded = NoDiscard

\* no scan is running (the specifications of the other parts)
DIdle ==
    /\ d_pc = "idle"
    /\ timeout = 1
    /\ has_callback = FALSE
    /\ elapsed = 0
    /\ devices = <<>>
    /\ seen_locations = {}
    /\ pending = None
    /\ on_found = <<>>
    /\ heard = [u \in Urls |-> 0]
    /\ d_result = None
    /\ d_error = NoError
    /\ d_discarded = NoDiscard

\* lines 134-156: the socket is created and the M-SEARCH requests are sent
SendSearch ==
    /\ d_pc = "call"
    /\ d_pc' = "loop"
    /\ UNCHANGED <<timeout, has_callback, elapsed, devices, seen_locations,
                   pending, on_found, heard, d_result>>
    /\ UNCHANGED <<d_error, d_discarded>>
    /\ UNCHANGED dothers

\* lines 231-236: socket creation or sendto raises; the outer handler returns devices
SocketError ==
    /\ d_pc = "call"
    /\ d_pc' = "done"
    /\ d_result' = Returned(devices)
    /\ UNCHANGED <<timeout, has_callback, elapsed, devices, seen_locations,
                   pending, on_found, heard>>
    /\ d_error' = [occurred |-> TRUE, devices |-> devices]
    /\ UNCHANGED d_discarded
    /\ UNCHANGED dothers

\* lines 159-178: an iteration receives a datagram after dt seconds and parses it
ReceiveDatagram(dg, dt) ==
    /\ d_pc = "loop"
    /\ LoopGuard(elapsed, timeout)
    /\ elapsed' = elapsed + dt
    /\ heard' = IF LocationMatch(dg)
                THEN [heard EXCEPT ![dg.location.url] = IF @ = 0 THEN 1 ELSE 2]
                ELSE heard
    /\ IF LocationMatch(dg) /\ ~IsDuplicate(Strip(dg.location), seen_locations)
       THEN /\ seen_locations' = seen_locations \cup {Strip(dg.location)}
            /\ pending' = [location |-> Strip(dg.location), server |-> ServerOf(dg)]
            /\ d_pc' = "fetch"
       ELSE UNCHANGED <<seen_locations, pending, d_pc>>
    /\ UNCHANGED <<timeout, has_callback, devices, on_found, d_result>>
    /\ d_discarded' = IF LocationMatch(dg)
                      THEN d_discarded
                      ELSE [occurred |-> TRUE, devices |-> devices]
    /\ UNCHANGED d_error
    /\ UNCHANGED dothers

\* callback(device, devices.copy()), line 213, called after devices.append; the
\* mutant calls it before the append
CallbackArgsBeforeAppend(device, list) ==
    [device |-> device, all_devices |-> SubSeq(list, 1, Len(list) - 1)]
CallbackArgs(device, list) == [device |-> device, all_devices |-> list]

\* lines 180-215: the description is fetched (ft seconds), the device is appended
\* and the callback is called with the device and a copy of the list
FetchDescription(desc, ft) ==
    /\ d_pc = "fetch"
    /\ LET device == DLNADevice(NameOf(desc), pending.location, pending.server)
           all == Append(devices, device)
       IN /\ devices' = all
          /\ on_found' = IF has_callback
                         THEN Append(on_found, CallbackArgs(device, all))
                         ELSE on_found
    /\ elapsed' = elapsed + ft
    /\ pending' = None
    /\ d_pc' = "loop"
    /\ UNCHANGED <<timeout, has_callback, seen_locations, heard, d_result>>
    /\ UNCHANGED <<d_error, d_discarded>>
    /\ UNCHANGED dothers

\* lines 217-222: recvfrom times out after RecvTimeout seconds
ReceiveTimeout ==
    /\ d_pc = "loop"
    /\ LoopGuard(elapsed, timeout)
    /\ elapsed' = elapsed + RecvTimeout
    /\ UNCHANGED <<d_pc, timeout, has_callback, devices, seen_locations,
                   pending, on_found, heard, d_result>>
    /\ UNCHANGED <<d_error, d_discarded>>
    /\ UNCHANGED dothers

\* lines 223-226: recvfrom raises another error; the scan continues
ReceiveError(dt) ==
    /\ d_pc = "loop"
    /\ LoopGuard(elapsed, timeout)
    /\ elapsed' = elapsed + dt
    /\ UNCHANGED <<d_pc, timeout, has_callback, devices, seen_locations,
                   pending, on_found, heard, d_result>>
    /\ d_error' = [occurred |-> TRUE, devices |-> devices]
    /\ UNCHANGED d_discarded
    /\ UNCHANGED dothers

\* lines 228-236: the loop is left and the list is returned
ReturnDevices ==
    /\ d_pc = "loop"
    /\ ~LoopGuard(elapsed, timeout)
    /\ d_pc' = "done"
    /\ d_result' = Returned(devices)
    /\ UNCHANGED <<timeout, has_callback, elapsed, devices, seen_locations,
                   pending, on_found, heard>>
    /\ UNCHANGED <<d_error, d_discarded>>
    /\ UNCHANGED dothers

DNext ==
    \/ SendSearch
    \/ SocketError
    \/ \E dg \in Datagrams, dt \in 0..RecvTimeout : ReceiveDatagram(dg, dt)
    \/ \E desc \in Descriptions, ft \in 0..FetchTimeout : FetchDescription(desc, ft)
    \/ ReceiveTimeout
    \/ \E dt \in 0..RecvTimeout : ReceiveError(dt)
    \/ ReturnDevices


(***************************************************************************)
(* Part 2: DLNAControlPoint                                                *)
(***************************************************************************)

\* self.device_location
DeviceLocation == [host |-> "tv", path |-> "/description.xml"]

ServiceTypes == {"AVTransport", "RenderingControl"}
\* a <service> block: its serviceType, whether it holds a controlURL element, and
\* whether that element comes before the serviceType element
ServiceBlocks == [svc : ServiceTypes, has_ctl : BOOLEAN, ctl_first : BOOLEAN]
Documents == UNION {[1..n -> ServiceBlocks] : n \in 0..MaxServices}

\* the serviceType and controlURL elements of block i, in document order; the
\* controlURL of block i holds the path i
BlockTokens(doc, i) ==
    LET type == <<[tag |-> "serviceType", val |-> doc[i].svc]>>
        ctl  == IF doc[i].has_ctl THEN <<[tag |-> "controlURL", val |-> i]>> ELSE <<>>
    IN IF doc[i].ctl_first THEN ctl \o type ELSE type \o ctl

RECURSIVE TokensFrom(_, _)
TokensFrom(doc, i) ==
    IF i > Len(doc) THEN <<>> ELSE BlockTokens(doc, i) \o TokensFrom(doc, i + 1)

\* response.text as the sequence of its serviceType and controlURL elements
Tokens(doc) == TokensFrom(doc, 1)

\* no match / self.control_url = None
NoPath == 0
NoUrl == [host |-> "", path |-> NoPath]
\* requests.get raised
FetchError == [ok |-> FALSE, doc |-> <<>>]
Fetched == [ok : {TRUE}, doc : Documents] \cup {FetchError}

SetMin(S) == CHOOSE x \in S : \A y \in S : x <= y

\* re.search(r'<serviceType>urn:...:AVTransport:.*?</serviceType>.*?<controlURL>(.*?)</controlURL>',
\*           response.text, re.DOTALL | re.IGNORECASE): the first controlURL element
\* that follows the first AVTransport serviceType element, wherever it is
ControlPathMatch(doc) ==
    LET toks == Tokens(doc)
        avt  == {k \in DOMAIN toks : toks[k].tag = "serviceType" /\ toks[k].val = "AVTransport"}
    IN IF avt = {} THEN NoPath
       ELSE LET ctls == {k \in DOMAIN toks : k > SetMin(avt) /\ toks[k].tag = "controlURL"}
            IN IF ctls = {} THEN NoPath ELSE toks[SetMin(ctls)].val

\* urljoin(self.device_location, control_path)
UrlJoin(base, control_path) == [host |-> base.host, path |-> control_path]

\* _fetch_control_url: the value self.control_url has after it
FetchControlUrl(fetched) ==
    IF ~fetched.ok THEN NoUrl
    ELSE IF ControlPathMatch(fetched.doc) = NoPath THEN NoUrl
    ELSE UrlJoin(DeviceLocation, ControlPathMatch(fetched.doc))

\* what requests.post gives: a status code, or TransportError when it raises
TransportError == -1
HttpOutcomes == {200, 204, 500, TransportError}

\* _send_soap_request: [ok: the returned boolean, posted: whether requests.post ran]
SendSoapRequestUnguarded(url, outcome) == [ok |-> outcome = 200, posted |-> TRUE]
SendSoapRequest(url, outcome) ==
    IF url = NoUrl THEN [ok |-> FALSE, posted |-> FALSE]
    ELSE [ok |-> outcome = 200, posted |-> TRUE]

\* A stream url is the sequence of its parts; the file name is spelled out
\* character by character.
\* the addresses get_stream_url may settle on (lines 298-330)
LocalIps == {"127.0.0.1", "192.168.1.5"}

\* HLSStreamer.get_stream_url, lines 334-337
GetStreamUrl(local_ip, mpegts) ==
    <<"http://", local_ip, ":", "5000", "/", "s", "t", "r", "e", "a", "m">>
        \o (IF mpegts THEN <<".", "t", "s">> ELSE <<".", "m", "3", "u", "8">>)

\* the urls set_av_transport_uri is called with: those of get_stream_url, and
\* urls of other media (upper-case suffix, query string, no suffix)
StreamUrls ==
    {GetStreamUrl(ip, mpegts) : ip \in LocalIps, mpegts \in BOOLEAN}
    \cup {<<"http://", "nas", "/", "a", ".", "T", "S">>,
          <<"http://", "nas", "/", "a", ".", "t", "s", "?", "x">>,
          <<"http://", "nas", "/", "a">>}
NoUri == <<>>

\* str.endswith
EndsWith(str, suffix) ==
    /\ Len(str) >= Len(suffix)
    /\ SubSeq(str, Len(str) - Len(suffix) + 1, Len(str)) = suffix

\* set_av_transport_uri, lines 417-424: the protocol info for a stream url; the
\* mutant announces the playlist type for every url
ProtocolInfoPlaylist(stream_url) == "http-get:*:application/vnd.apple.mpegurl:*"
ProtocolInfo(stream_url) ==
    IF EndsWith(stream_url, <<".", "t", "s">>) THEN "http-get:*:video/mp2t:*"
    ELSE "http-get:*:application/vnd.apple.mpegurl:*"

\* no HTTP response was received (nothing was posted)
NoStatus == 0
NoCall == [action |-> None, uri |-> NoUri, protocol_info |-> None, ok |-> FALSE,
           status |-> NoStatus]

CInit ==
    /\ cp_pc = "new"
    /\ cp_document = FetchError
    /\ control_url = NoUrl
    /\ cp_unresolved = FALSE
    /\ posts = 0
    /\ last_call = NoCall

\* DLNAControlPoint.__init__ with _fetch_control_url
NewControlPoint(fetched) ==
    /\ cp_pc = "new"
    /\ cp_pc' = "ready"
    /\ cp_document' = fetched
    /\ control_url' = FetchControlUrl(fetched)
    /\ cp_unresolved' = (FetchControlUrl(fetched) = NoUrl)
    /\ UNCHANGED <<posts, last_call>>

ControlPointInit(fetched) ==
    /\ NewControlPoint(fetched)
    /\ UNCHANGED cothers

\* one action method: the envelope goes through _send_soap_request and the
\* method returns its boolean
SoapAction(action, uri, info, outcome) ==
    /\ cp_pc = "ready"
    /\ LET r == SendSoapRequest(control_url, outcome)
       IN /\ posts' = IF r.posted THEN posts + 1 ELSE posts
          /\ last_call' = [action |-> action, uri |-> uri, protocol_info |-> info,
                           ok |-> r.ok,
                           status |-> IF r.posted THEN outcome ELSE NoStatus]
    /\ UNCHANGED <<cp_pc, cp_document, control_url, cp_unresolved>>

\* an action method called on the control point on its own
SoapCall(action, uri, info, outcome) ==
    /\ posts < MaxPosts
    /\ SoapAction(action, uri, info, outcome)
    /\ UNCHANGED cothers

\* set_av_transport_uri(stream_url)
SetAVTransportURI(stream_url, outcome) ==
    SoapCall("SetAVTransportURI", stream_url, ProtocolInfo(stream_url), outcome)

\* play()
Play(outcome) == SoapCall("Play", NoUri, None, outcome)

\* stop()
Stop(outcome) == SoapCall("Stop", NoUri, None, outcome)

CNext ==
    \/ \E fetched \in Fetched : ControlPointInit(fetched)
    \/ \E stream_url \in StreamUrls, outcome \in HttpOutcomes :
          SetAVTransportURI(stream_url, outcome)
    \/ \E outcome \in HttpOutcomes : Play(outcome)
    \/ \E outcome \in HttpOutcomes : Stop(outcome)

(***************************************************************************)
(* Part 3: the Flask routes of HLSStreamer (the Segment Server)            *)
(***************************************************************************)

Manifest == [stem |-> "stream", ext |-> ".m3u8"]
Segment == [stem |-> "segment_000", ext |-> ".ts"]
StreamFile == [stem |-> "stream", ext |-> ".ts"]
OtherFile == [stem |-> "notes", ext |-> ".txt"]
AllFiles == {Manifest, Segment, StreamFile, OtherFile}
NoFile == [stem |-> "", ext |-> ""]

\* hls_dir.glob("*.ts"), hls_dir.glob("*.m3u8")
Glob(files, ext) == {f \in files : f.ext = ext}

CORS == "Access-Control-Allow-Origin: *"
TransferMode == "transferMode.dlna.org: Streaming"
ContentFeatures == "contentFeatures.dlna.org"
Chunked == "Transfer-Encoding: chunked"
NoCache == "Cache-Control: no-cache"

NoResponse == [status |-> 0, mimetype |-> "", headers |-> {}, body |-> ""]
\* the response Flask makes of the NotFound that send_from_directory raises
NotFound == [status |-> 404, mimetype |-> "text/html", headers |-> {}, body |-> "Not Found"]

\* serve_mpegts, lines 55-62
ServeMpegts(files) ==
    IF StreamFile \in files
    THEN [status |-> 200, mimetype |-> "video/mp2t",
          headers |-> {TransferMode, ContentFeatures, CORS}, body |-> "file"]
    ELSE NotFound

\* serve_hls, lines 64-99
ServeHls(filename, files) ==
    IF filename.ext = ".ts"
    THEN \* Response(generate()): the file is opened when the body is generated
         [status |-> 200, mimetype |-> "video/mp2t",
          headers |-> {Chunked, NoCache, CORS, TransferMode},
          body |-> IF filename \in files THEN "file" ELSE "empty"]
    ELSE IF filename \in files
    THEN [status |-> 200,
          mimetype |-> IF filename.ext = ".m3u8" THEN "application/vnd.apple.mpegurl"
                       ELSE "guessed",
          headers |-> (IF filename.ext = ".m3u8" THEN {NoCache} ELSE {})
                      \cup {CORS, TransferMode},
          body |-> "file"]
    ELSE NotFound

\* the routing of a GET /<filename>: the static rule /stream.ts, when registered,
\* goes before /<path:filename>
ServeRequest(mpegts, filename, files) ==
    IF mpegts /\ filename = StreamFile THEN ServeMpegts(files)
    ELSE ServeHls(filename, files)

HInit ==
    /\ hls_files \in SUBSET AllFiles
    /\ route_mpegts \in BOOLEAN
    /\ last_request = [filename |-> NoFile, existed |-> FALSE]
    /\ last_response = NoResponse

\* the encoder child, or the cleanup of a session, creates or removes a file
FileWritten(f) ==
    /\ f \notin hls_files
    /\ hls_files' = hls_files \cup {f}
    /\ UNCHANGED <<route_mpegts, last_request, last_response>>
    /\ UNCHANGED hothers

FileRemoved(f) ==
    /\ f \in hls_files
    /\ hls_files' = hls_files \ {f}
    /\ UNCHANGED <<route_mpegts, last_request, last_response>>
    /\ UNCHANGED hothers

\* a renderer requests GET /<filename>
HttpGet(filename) ==
    /\ last_request' = [filename |-> filename, existed |-> filename \in hls_files]
    /\ last_response' = ServeRequest(route_mpegts, filename, hls_files)
    /\ UNCHANGED <<hls_files, route_mpegts>>
    /\ UNCHANGED hothers

HNext ==
    \/ \E f \in AllFiles \ {OtherFile} : FileWritten(f)
    \/ \E f \in AllFiles \ {OtherFile} : FileRemoved(f)
    \/ \E f \in AllFiles : HttpGet(f)

(***************************************************************************)
(* Part 4: HLSStreamer (__init__, start, stop, _capture_loop), the encoder *)
(* child and the tasks that call the object.  A session object is started  *)
(* at most once: it is created at stream start and dropped at stream stop. *)
(***************************************************************************)
Threads == {"ui", "worker"}

\* the files the ffmpeg command of a session writes (lines 149, 188, 189)
EncoderOutputs(mpegts) == IF mpegts THEN {StreamFile} ELSE {Manifest, Segment}

\* the files a cleanup loop removes: *.ts and *.m3u8
Cleaned(files) == Glob(files, ".ts") \cup Glob(files, ".m3u8")

SInit ==
    /\ s_state = "absent"
    /\ use_mpegts = FALSE
    /\ running = FALSE
    /\ ffmpeg_process = FALSE
    /\ enc = "none"
    /\ stdin_closed = FALSE
    /\ server_thread = FALSE
    /\ port_bound = FALSE
    /\ capture = "none"
    /\ orphan_alive = FALSE
    /\ spawn_files = "none"
    /\ stream_ready = FALSE
    /\ stop_called = FALSE
    /\ stop_returned = FALSE
    /\ term_survived = FALSE

TInit ==
    /\ t_pc = [t \in Threads |-> "idle"]
    /\ t_ret = [t \in Threads |-> "idle"]
    /\ t_glob = [t \in Threads |-> {}]
    /\ t_raised = [t \in Threads |-> None]
    /\ polls = 0

\* the method of task t returns (or raises) to its caller
Return(t) == t_pc' = [t_pc EXCEPT ![t] = t_ret[t]]

\* HLSStreamer.__init__, lines 29-103: a new object replaces the current one (the
\* encoder child of the old object, if still running, runs on) and the *.ts and
\* *.m3u8 files are removed
NewStreamer(mpegts) ==
    /\ s_state' = "ready"
    /\ use_mpegts' = mpegts
    /\ running' = FALSE
    /\ ffmpeg_process' = FALSE
    /\ enc' = "none"
    /\ stdin_closed' = FALSE
    /\ server_thread' = FALSE
    /\ capture' = "none"
    /\ orphan_alive' = (orphan_alive \/ enc = "alive")
    /\ spawn_files' = "none"
    /\ stream_ready' = FALSE
    /\ stop_called' = FALSE
    /\ stop_returned' = FALSE
    /\ term_survived' = FALSE
    /\ hls_files' = hls_files \ Cleaned(hls_files)
    /\ UNCHANGED <<port_bound, route_mpegts>>

\* a task constructs an HLSStreamer while no method of the old object runs
CallInit(t, mpegts) ==
    /\ \A u \in Threads : t_pc[u] = "idle"
    /\ NewStreamer(mpegts)
    /\ t_raised' = [t_raised EXCEPT ![t] = None]
    /\ UNCHANGED <<t_pc, t_ret, t_glob, polls>>
    /\ UNCHANGED sothers

\* stop(): `for f in self.hls_dir.glob(...)`: the directory is listed (lines 286, 288)
CleanGlob(t) ==
    /\ \/ t_pc[t] = "glob_ts"
       \/ t_pc[t] = "unlink_ts" /\ t_glob[t] = {}
    /\ t_glob' = [t_glob EXCEPT ![t] =
                     Glob(hls_files, IF t_pc[t] = "glob_ts" THEN ".ts" ELSE ".m3u8")]
    /\ t_pc' = [t_pc EXCEPT ![t] = IF t_pc[t] = "glob_ts" THEN "unlink_ts" ELSE "unlink_m3u8"]
    /\ UNCHANGED <<svars, t_ret, t_raised, polls, hls_files, route_mpegts>>
    /\ UNCHANGED sothers

\* `f.unlink()` of a listed file that is still there
CleanUnlink(t, f) ==
    /\ t_pc[t] \in {"unlink_ts", "unlink_m3u8"}
    /\ f \in t_glob[t]
    /\ f \in hls_files
    /\ hls_files' = hls_files \ {f}
    /\ t_glob' = [t_glob EXCEPT ![t] = @ \ {f}]
    /\ UNCHANGED <<svars, t_pc, t_ret, t_raised, polls, route_mpegts>>
    /\ UNCHANGED sothers

\* `f.unlink()` of a listed file that is gone: FileNotFoundError leaves the method
CleanUnlinkMissing(t, f) ==
    /\ t_pc[t] \in {"unlink_ts", "unlink_m3u8"}
    /\ f \in t_glob[t]
    /\ f \notin hls_files
    /\ t_glob' = [t_glob EXCEPT ![t] = {}]
    /\ t_raised' = [t_raised EXCEPT ![t] = "stop"]
    /\ Return(t)
    /\ UNCHANGED <<svars, t_ret, polls, hls_files, route_mpegts>>
    /\ UNCHANGED sothers

\* stop(), line 291: the second cleanup loop ends and stop() returns
CleanDone(t) ==
    /\ t_pc[t] = "unlink_m3u8"
    /\ t_glob[t] = {}
    /\ stop_returned' = TRUE
    /\ Return(t)
    /\ UNCHANGED <<s_state, use_mpegts, running, ffmpeg_process, enc,
                   stdin_closed, server_thread, port_bound, capture, orphan_alive,
                   spawn_files, stream_ready, stop_called, term_survived>>
    /\ UNCHANGED <<t_ret, t_glob, t_raised, polls, hls_files, route_mpegts>>
    /\ UNCHANGED sothers

\* start(), lines 107-108: `if self.running: return`; the mutant never returns
\* early
AlreadyRunningNever(flag) == FALSE
AlreadyRunning(flag) == flag

\* start(), lines 107-119: return if running, else set the flag and start the
\* Flask server thread; app.run binds the port (bound) or, the port being taken
\* by another server of this process or by another program, dies in its thread
\* while start() goes on
BeginStart(t, ret, bound) ==
    /\ s_state = "ready"
    /\ t_ret' = [t_ret EXCEPT ![t] = ret]
    /\ t_raised' = [t_raised EXCEPT ![t] = None]
    /\ IF AlreadyRunning(running)
       THEN /\ t_pc' = [t_pc EXCEPT ![t] = ret]
            /\ UNCHANGED <<running, server_thread, port_bound, route_mpegts>>
       ELSE /\ running' = TRUE
            /\ server_thread' = TRUE
            /\ port_bound' = (port_bound \/ bound)
            /\ route_mpegts' = IF ~port_bound /\ bound THEN use_mpegts ELSE route_mpegts
            /\ t_pc' = [t_pc EXCEPT ![t] = "start_spawn"]
    /\ UNCHANGED <<s_state, use_mpegts, ffmpeg_process, enc, stdin_closed,
                   capture, orphan_alive, spawn_files, stream_ready, stop_called,
                   stop_returned, term_survived>>
    /\ UNCHANGED <<t_glob, polls, hls_files>>

\* a task calls start() on an object that was not stopped (no caller restarts a
\* stopped session: the application stops each object once, as its last use)
CallStart(t, bound) ==
    /\ t_pc[t] = "idle"
    /\ ~stop_called
    /\ BeginStart(t, "idle", bound)
    /\ UNCHANGED sothers

\* the worker calls start() on the object once more, with no stop() in between
StartCall(bound) ==
    /\ t_pc["worker"] = "idle"
    /\ start_calls < MaxStarts
    /\ BeginStart("worker", "idle", bound)
    /\ start_calls' = start_calls + 1
    /\ UNCHANGED <<dvars, cvars, last_request, last_response, rvars, evars, lvars>>

\* start(), lines 192-202: Popen succeeds and the capture thread is started
StartSpawn(t) ==
    /\ t_pc[t] = "start_spawn"
    /\ ffmpeg_process' = TRUE
    /\ enc' = "alive"
    /\ stdin_closed' = FALSE
    /\ spawn_files' = IF Cleaned(hls_files) = {} THEN "clean" ELSE "stale"
    /\ capture' = "check"
    /\ polls' = 0
    /\ t_pc' = [t_pc EXCEPT ![t] = "start_poll"]
    /\ UNCHANGED <<s_state, use_mpegts, running, server_thread, port_bound,
                   orphan_alive, stream_ready, stop_called, stop_returned, term_survived>>
    /\ UNCHANGED <<t_ret, t_glob, t_raised, hls_files, route_mpegts>>
    /\ UNCHANGED sothers

\* start(), line 193: Popen raises (no ffmpeg binary); start() raises
StartSpawnFails(t) ==
    /\ t_pc[t] = "start_spawn"
    /\ t_raised' = [t_raised EXCEPT ![t] = "start"]
    /\ Return(t)
    /\ UNCHANGED <<svars, t_ret, t_glob, polls, hls_files, route_mpegts>>
    /\ UNCHANGED sothers

\* start(), lines 206-215: one pass of the wait loop
StartPoll(t) ==
    /\ t_pc[t] = "start_poll"
    /\ IF Manifest \in hls_files
       THEN /\ stream_ready' = TRUE
            /\ Return(t)
            /\ UNCHANGED polls
       ELSE /\ polls' = polls + 1
            /\ IF polls + 1 = StartPolls THEN Return(t) ELSE UNCHANGED t_pc
            /\ UNCHANGED stream_ready
    /\ UNCHANGED <<s_state, use_mpegts, running, ffmpeg_process, enc,
                   stdin_closed, server_thread, port_bound, capture, orphan_alive,
                   spawn_files, stop_called, stop_returned, term_survived>>
    /\ UNCHANGED <<t_ret, t_glob, t_raised, hls_files, route_mpegts>>
    /\ UNCHANGED sothers

\* stop(), line 274
BeginStop(t, ret) ==
    /\ s_state = "ready"
    /\ running' = FALSE
    /\ stop_called' = TRUE
    /\ t_pc' = [t_pc EXCEPT ![t] = "stop_ffmpeg"]
    /\ t_ret' = [t_ret EXCEPT ![t] = ret]
    /\ t_raised' = [t_raised EXCEPT ![t] = None]
    /\ UNCHANGED <<s_state, use_mpegts, ffmpeg_process, enc, stdin_closed,
                   server_thread, port_bound, capture, orphan_alive, spawn_files,
                   stream_ready, stop_returned, term_survived>>
    /\ UNCHANGED <<t_glob, polls, hls_files, route_mpegts>>

CallStop(t) ==
    /\ t_pc[t] = "idle"
    /\ BeginStop(t, "idle")
    /\ UNCHANGED sothers

\* stop(), lines 276-283: stdin.close(), terminate(), wait(timeout=5) with every
\* exception passed over; the child exits within the wait or outlives it.
\* stdin is a buffered writer: close() takes the lock that a write in progress
\* holds, so it waits while the capture thread is blocked in stdin.write
StopFfmpeg(t, exits) ==
    /\ t_pc[t] = "stop_ffmpeg"
    /\ ffmpeg_process => capture # "blocked"
    /\ IF ffmpeg_process
       THEN /\ stdin_closed' = TRUE
            /\ enc' = IF enc = "alive" /\ exits THEN "exited" ELSE enc
            /\ term_survived' = (term_survived \/ (enc = "alive" /\ ~exits))
       ELSE UNCHANGED <<stdin_closed, enc, term_survived>>
    /\ t_pc' = [t_pc EXCEPT ![t] = "glob_ts"]
    /\ UNCHANGED <<s_state, use_mpegts, running, ffmpeg_process,
                   server_thread, port_bound, capture, orphan_alive, spawn_files,
                   stream_ready, stop_called, stop_returned>>
    /\ UNCHANGED <<t_ret, t_glob, t_raised, polls, hls_files, route_mpegts>>
    /\ UNCHANGED sothers

\* _capture_loop, line 248: the loop condition
CaptureCheck ==
    /\ capture = "check"
    /\ capture' = IF running /\ ffmpeg_process /\ enc = "alive" THEN "write" ELSE "ended"
    /\ UNCHANGED <<s_state, use_mpegts, running, ffmpeg_process, enc,
                   stdin_closed, server_thread, port_bound, orphan_alive, spawn_files,
                   stream_ready, stop_called, stop_returned, term_survived>>
    /\ UNCHANGED <<tvars, hls_files, route_mpegts>>
    /\ UNCHANGED sothers

\* _capture_loop, lines 249-270: grab, resize and write one frame; an exception
\* (grab failed, stdin closed, pipe broken) ends the loop
CaptureWrite(grabbed) ==
    /\ capture = "write"
    /\ capture' = IF grabbed /\ ~stdin_closed /\ enc = "alive" THEN "check" ELSE "ended"
    /\ UNCHANGED <<s_state, use_mpegts, running, ffmpeg_process, enc,
                   stdin_closed, server_thread, port_bound, orphan_alive, spawn_files,
                   stream_ready, stop_called, stop_returned, term_survived>>
    /\ UNCHANGED <<tvars, hls_files, route_mpegts>>
    /\ UNCHANGED sothers

\* _capture_loop, line 259: stdin.write finds the pipe full (the encoder is
\* behind) and blocks
CaptureBlocks ==
    /\ capture = "write"
    /\ ~stdin_closed
    /\ enc = "alive"
    /\ capture' = "blocked"
    /\ UNCHANGED <<s_state, use_mpegts, running, ffmpeg_process, enc,
                   stdin_closed, server_thread, port_bound, orphan_alive, spawn_files,
                   stream_ready, stop_called, stop_returned, term_survived>>
    /\ UNCHANGED <<tvars, hls_files, route_mpegts>>
    /\ UNCHANGED sothers

\* the encoder child reads from its stdin: the blocked write completes
EncoderReads ==
    /\ capture = "blocked"
    /\ enc = "alive"
    /\ capture' = "check"
    /\ UNCHANGED <<s_state, use_mpegts, running, ffmpeg_process, enc,
                   stdin_closed, server_thread, port_bound, orphan_alive, spawn_files,
                   stream_ready, stop_called, stop_returned, term_survived>>
    /\ UNCHANGED <<tvars, hls_files, route_mpegts>>
    /\ UNCHANGED sothers

\* _capture_loop, lines 268-270: the encoder child is gone, the blocked write
\* raises BrokenPipeError and the loop ends
CaptureBrokenPipe ==
    /\ capture = "blocked"
    /\ enc # "alive"
    /\ capture' = "ended"
    /\ UNCHANGED <<s_state, use_mpegts, running, ffmpeg_process, enc,
                   stdin_closed, server_thread, port_bound, orphan_alive, spawn_files,
                   stream_ready, stop_called, stop_returned, term_survived>>
    /\ UNCHANGED <<tvars, hls_files, route_mpegts>>
    /\ UNCHANGED sothers

\* the encoder child writes one of its output files
EncoderWrite(f) ==
    /\ enc = "alive"
    /\ f \in EncoderOutputs(use_mpegts)
    /\ f \notin hls_files
    /\ hls_files' = hls_files \cup {f}
    /\ UNCHANGED <<svars, tvars, route_mpegts>>
    /\ UNCHANGED sothers

\* the encoder child removes an old segment (-hls_flags delete_segments, line 185)
EncoderDeleteSegment ==
    /\ enc = "alive"
    /\ ~use_mpegts
    /\ Segment \in hls_files
    /\ hls_files' = hls_files \ {Segment}
    /\ UNCHANGED <<svars, tvars, route_mpegts>>
    /\ UNCHANGED sothers

\* the encoder child exits (end of input, a signal, a crash)
EncoderExit ==
    /\ enc = "alive"
    /\ enc' = "exited"
    /\ UNCHANGED <<s_state, use_mpegts, running, ffmpeg_process,
                   stdin_closed, server_thread, port_bound, capture, orphan_alive,
                   spawn_files, stream_ready, stop_called, stop_returned, term_survived>>
    /\ UNCHANGED <<tvars, hls_files, route_mpegts>>
    /\ UNCHANGED sothers

\* the encoder child of an earlier object writes one of its output files
OrphanWrite(f) ==
    /\ orphan_alive
    /\ f \in {Manifest, Segment, StreamFile}
    /\ f \notin hls_files
    /\ hls_files' = hls_files \cup {f}
    /\ UNCHANGED <<svars, tvars, route_mpegts>>
    /\ UNCHANGED sothers

\* the encoder child of an earlier object exits
OrphanExit ==
    /\ orphan_alive
    /\ orphan_alive' = FALSE
    /\ UNCHANGED <<s_state, use_mpegts, running, ffmpeg_process, enc,
                   stdin_closed, server_thread, port_bound, capture, spawn_files,
                   stream_ready, stop_called, stop_returned, term_survived>>
    /\ UNCHANGED <<tvars, hls_files, route_mpegts>>
    /\ UNCHANGED sothers

\* the steps inside the methods, the capture thread and the encoder child
SessionSteps ==
    \/ \E t \in Threads : CleanGlob(t)
    \/ \E t \in Threads, f \in AllFiles : CleanUnlink(t, f)
    \/ \E t \in Threads, f \in AllFiles : CleanUnlinkMissing(t, f)
    \/ \E t \in Threads : CleanDone(t)
    \/ \E t \in Threads : StartSpawn(t)
    \/ \E t \in Threads : StartSpawnFails(t)
    \/ \E t \in Threads : StartPoll(t)
    \/ \E t \in Threads, exits \in BOOLEAN : StopFfmpeg(t, exits)
    \/ CaptureCheck
    \/ \E grabbed \in BOOLEAN : CaptureWrite(grabbed)
    \/ CaptureBlocks
    \/ CaptureBrokenPipe
    \/ EncoderReads
    \/ \E f \in AllFiles : EncoderWrite(f)
    \/ EncoderDeleteSegment
    \/ EncoderExit

\* the worker constructs and starts the session object, any task may stop it
\* (the two tasks are alike, so which of them starts is immaterial)
SNext ==
    \/ \E mpegts \in BOOLEAN : CallInit("worker", mpegts)
    \/ \E bound \in BOOLEAN : CallStart("worker", bound)
    \/ \E t \in Threads : CallStop(t)
    \/ SessionSteps
    \/ \E f \in AllFiles : OrphanWrite(f)
    \/ OrphanExit

(***************************************************************************)
(* Part 5: StreamingScreen (the orchestrator of one streaming session)     *)
(* on_mount starts the thread "worker" on start_streaming; the key and     *)
(* button handlers run action_stop_streaming on the thread "ui", one after *)
(* the other.  The status widgets are left out.                            *)
(***************************************************************************)
\* the description documents the TV may answer with: none (the fetch failed), one
\* with an AVTransport controlURL, one without
ScreenFetched ==
    {FetchError,
     [ok |-> TRUE, doc |-> <<[svc |-> "AVTransport", has_ctl |-> TRUE, ctl_first |-> FALSE]>>],
     [ok |-> TRUE, doc |-> <<[svc |-> "RenderingControl", has_ctl |-> FALSE, ctl_first |-> FALSE]>>]}

\* StreamingScreen.__init__, lines 450-456
RInit ==
    /\ screen = "constructed"
    /\ scr_streamer = FALSE
    /\ scr_dlna = FALSE
    /\ streaming = FALSE
    /\ stop_requests = 0

\* the DeviceSelectionScreen is on top and no StreamingScreen exists
RIdle ==
    /\ screen = "device"
    /\ scr_streamer = FALSE
    /\ scr_dlna = FALSE
    /\ streaming = FALSE
    /\ stop_requests = 0

\* DeviceSelectionScreen.action_start_streaming, lines 417-435: a StreamingScreen
\* (with no streamer and no control point yet) is constructed and pushed; the
\* worker of an earlier screen, if any, has ended
PushStreamingScreen ==
    /\ screen = "device"
    /\ t_pc["worker"] \in {"idle", "w_done"}
    /\ screen' = "constructed"
    /\ scr_streamer' = FALSE
    /\ scr_dlna' = FALSE
    /\ streaming' = FALSE
    /\ stop_requests' = 0
    /\ cp_pc' = "new"
    /\ cp_document' = FetchError
    /\ control_url' = NoUrl
    /\ cp_unresolved' = FALSE
    /\ posts' = 0
    /\ last_call' = NoCall
    /\ UNCHANGED <<svars, tvars, hls_files, route_mpegts>>
    /\ UNCHANGED rothers

\* the screens on the stack while a StreamingScreen is shown: Textual's default
\* screen, WindowSelectionScreen, DeviceSelectionScreen, StreamingScreen
ScreenStack == <<"default", "window", "device", "streaming">>

\* the screen on top after n calls of app.pop_screen(); the mutant pops once
PopToPrevious(n) == ScreenStack[Len(ScreenStack) - 1]
PopTo(n) == ScreenStack[Len(ScreenStack) - n]

\* on_mount, lines 470-472
OnMount ==
    /\ screen = "constructed"
    /\ screen' = "mounted"
    /\ t_pc' = [t_pc EXCEPT !["worker"] = "w_construct"]
    /\ UNCHANGED <<scr_streamer, scr_dlna, streaming, stop_requests>>
    /\ UNCHANGED <<t_ret, t_glob, t_raised, polls>>
    /\ UNCHANGED <<cvars, svars, hls_files, route_mpegts>>
    /\ UNCHANGED rothers

\* start_streaming, line 485: self.streamer = MJPEGStreamer(..., use_mpegts=False)
WorkerConstruct ==
    /\ t_pc["worker"] = "w_construct"
    /\ NewStreamer(FALSE)
    /\ scr_streamer' = TRUE
    /\ t_pc' = [t_pc EXCEPT !["worker"] = "w_start"]
    /\ UNCHANGED <<screen, scr_dlna, streaming, stop_requests>>
    /\ UNCHANGED <<t_ret, t_glob, t_raised, polls>>
    /\ UNCHANGED cvars
    /\ UNCHANGED rothers

\* start_streaming, line 486: self.streamer.start()
WorkerStart(bound) ==
    /\ t_pc["worker"] = "w_start"
    /\ BeginStart("worker", "w_connect", bound)
    /\ UNCHANGED <<cvars, rvars>>
    /\ UNCHANGED rothers

\* start_streaming, lines 487-496: get_stream_url() and
\* self.dlna = DLNAControlPoint(self.device.location)
WorkerConnect(fetched) ==
    /\ t_pc["worker"] = "w_connect"
    /\ t_raised["worker"] = None
    /\ NewControlPoint(fetched)
    /\ scr_dlna' = TRUE
    /\ t_pc' = [t_pc EXCEPT !["worker"] = "w_set_uri"]
    /\ UNCHANGED <<screen, scr_streamer, streaming, stop_requests>>
    /\ UNCHANGED <<t_ret, t_glob, t_raised, polls>>
    /\ UNCHANGED <<svars, hls_files, route_mpegts>>
    /\ UNCHANGED rothers

\* start_streaming, lines 517-521: start() raised and the handler reports the error
WorkerFails ==
    /\ t_pc["worker"] = "w_connect"
    /\ t_raised["worker"] # None
    /\ t_pc' = [t_pc EXCEPT !["worker"] = "w_done"]
    /\ UNCHANGED <<t_ret, t_glob, t_raised, polls>>
    /\ UNCHANGED <<cvars, svars, rvars, hls_files, route_mpegts>>
    /\ UNCHANGED rothers

\* start_streaming, lines 501 and 513-515: `if self.dlna.set_av_transport_uri(...)`:
\* where the worker goes on after the call returned ok; the mutant goes on to
\* play() whatever it returned
AfterSetUriAlwaysPlay(ok) == "w_play"
AfterSetUri(ok) == IF ok THEN "w_play" ELSE "w_done"

\* start_streaming, lines 487, 501 and 513-515: set_av_transport_uri(stream_url)
\* with the url get_stream_url gave
WorkerSetUri(local_ip, outcome) ==
    /\ t_pc["worker"] = "w_set_uri"
    /\ LET stream_url == GetStreamUrl(local_ip, use_mpegts)
       IN SoapAction("SetAVTransportURI", stream_url, ProtocolInfo(stream_url), outcome)
    /\ t_pc' = [t_pc EXCEPT !["worker"] = AfterSetUri(last_call'.ok)]
    /\ UNCHANGED <<t_ret, t_glob, t_raised, polls>>
    /\ UNCHANGED <<svars, rvars, hls_files, route_mpegts>>
    /\ UNCHANGED rothers

\* start_streaming, lines 506-512: self.streaming after play() returned ok; the
\* mutant sets the flag whatever play() returned
StreamingFlagAlways(ok, old) == TRUE
StreamingFlag(ok, old) == IF ok THEN TRUE ELSE old

\* start_streaming, lines 506-512: play() and, if it succeeds, self.streaming = True
WorkerPlay(outcome) ==
    /\ t_pc["worker"] = "w_play"
    /\ SoapAction("Play", NoUri, None, outcome)
    /\ streaming' = StreamingFlag(last_call'.ok, streaming)
    /\ t_pc' = [t_pc EXCEPT !["worker"] = "w_done"]
    /\ UNCHANGED <<screen, scr_streamer, scr_dlna, stop_requests>>
    /\ UNCHANGED <<t_ret, t_glob, t_raised, polls>>
    /\ UNCHANGED <<svars, hls_files, route_mpegts>>
    /\ UNCHANGED rothers

\* the Stop key or button: action_stop_streaming begins, lines 528-531
StopRequested ==
    /\ screen = "mounted"
    /\ t_pc["ui"] = "idle"
    /\ stop_requests < MaxStopRequests
    /\ stop_requests' = stop_requests + 1
    /\ t_pc' = [t_pc EXCEPT !["ui"] = "u_dlna"]
    /\ UNCHANGED <<screen, scr_streamer, scr_dlna, streaming>>
    /\ UNCHANGED <<t_ret, t_glob, t_raised, polls>>
    /\ UNCHANGED <<cvars, svars, hls_files, route_mpegts>>
    /\ UNCHANGED rothers

\* action_stop_streaming, lines 534-535: if self.dlna: self.dlna.stop(); the
\* returned boolean is dropped
UiStopDlna(outcome) ==
    /\ t_pc["ui"] = "u_dlna"
    /\ IF scr_dlna
       THEN SoapAction("Stop", NoUri, None, outcome)
       ELSE UNCHANGED cvars
    /\ t_pc' = [t_pc EXCEPT !["ui"] = "u_streamer"]
    /\ UNCHANGED <<t_ret, t_glob, t_raised, polls>>
    /\ UNCHANGED <<svars, rvars, hls_files, route_mpegts>>
    /\ UNCHANGED rothers

\* action_stop_streaming, lines 538-539: if self.streamer: self.streamer.stop()
UiStopStreamer ==
    /\ t_pc["ui"] = "u_streamer"
    /\ IF scr_streamer
       THEN BeginStop("ui", "u_pop")
       ELSE /\ t_pc' = [t_pc EXCEPT !["ui"] = "u_pop"]
            /\ t_raised' = [t_raised EXCEPT !["ui"] = None]
            /\ UNCHANGED <<svars, t_ret, t_glob, polls, hls_files, route_mpegts>>
    /\ UNCHANGED <<cvars, rvars>>
    /\ UNCHANGED rothers

\* action_stop_streaming, lines 541-547: self.streaming = False and the screens
\* are popped
UiPop ==
    /\ t_pc["ui"] = "u_pop"
    /\ t_raised["ui"] = None
    /\ streaming' = FALSE
    /\ screen' = IF PopTo(PopScreens) \in {"window", "device"} THEN "device" ELSE "stopped"
    /\ t_pc' = [t_pc EXCEPT !["ui"] = "idle"]
    /\ UNCHANGED <<scr_streamer, scr_dlna, stop_requests>>
    /\ UNCHANGED <<t_ret, t_glob, t_raised, polls>>
    /\ UNCHANGED <<cvars, svars, hls_files, route_mpegts>>
    /\ UNCHANGED rothers

\* streamer.stop() raised: the exception leaves action_stop_streaming at line 539
\* and the screen stays
UiStopRaised ==
    /\ t_pc["ui"] = "u_pop"
    /\ t_raised["ui"] # None
    /\ t_pc' = [t_pc EXCEPT !["ui"] = "idle"]
    /\ UNCHANGED <<t_ret, t_glob, t_raised, polls>>
    /\ UNCHANGED <<cvars, svars, rvars, hls_files, route_mpegts>>
    /\ UNCHANGED rothers

\* one screen: its worker, its stop handler, and the steps inside the session
\* object they call into
RNext ==
    \/ PushStreamingScreen
    \/ OnMount
    \/ WorkerConstruct
    \/ \E bound \in BOOLEAN : WorkerStart(bound)
    \/ \E fetched \in ScreenFetched : WorkerConnect(fetched)
    \/ WorkerFails
    \/ \E local_ip \in LocalIps, outcome \in HttpOutcomes : WorkerSetUri(local_ip, outcome)
    \/ \E outcome \in HttpOutcomes : WorkerPlay(outcome)
    \/ StopRequested
    \/ \E outcome \in HttpOutcomes : UiStopDlna(outcome)
    \/ UiStopStreamer
    \/ UiPop
    \/ UiStopRaised
    \/ SessionSteps

(***************************************************************************)
(* Part 6: the SOAP envelope built by _send_soap_request (lines 380-392)   *)
(* The body is the sequence of its tags and texts, in document order.      *)
(***************************************************************************)
Actions == {"SetAVTransportURI", "Play", "Stop"}
\* the argument names and the plain-text values the action methods pass
ArgNames == {"CurrentURI", "CurrentURIMetaData", "Speed"}
ArgValues == {"1", "http://192.168.1.5:5000/stream.m3u8", "DIDL-Lite"}

\* a dict in insertion order: a sequence of [k, v] items with distinct keys
ArgMaps ==
    {a \in UNION {[1..n -> [k : ArgNames, v : ArgValues]] : n \in 0..MaxArgs} :
        \A i, j \in DOMAIN a : i # j => a[i].k # a[j].k}

OpenTag(name) == [kind |-> "open", name |-> name]
CloseTag(name) == [kind |-> "close", name |-> name]
TextNode(text) == [kind |-> "text", name |-> text]
\* <u:{action} ...> and </u:{action}>
OpenAction(action) == [kind |-> "open-u", name |-> action]
CloseAction(action) == [kind |-> "close-u", name |-> action]

\* line 381: ''.join(f'<{k}>{v}</{k}>' for k, v in arguments.items()); the mutant
\* writes the first item only
ArgsXmlFirstOnly(arguments) ==
    IF arguments = <<>> THEN <<>>
    ELSE <<OpenTag(arguments[1].k), TextNode(arguments[1].v), CloseTag(arguments[1].k)>>
RECURSIVE ArgsXml(_)
ArgsXml(arguments) ==
    IF arguments = <<>> THEN <<>>
    ELSE <<OpenTag(arguments[1].k), TextNode(arguments[1].v), CloseTag(arguments[1].k)>>
         \o ArgsXml(Tail(arguments))

\* lines 383-392: soap_body
SoapBody(action, arguments) ==
    <<OpenTag("s:Envelope"), OpenTag("s:Body"), OpenAction(action),
      OpenTag("InstanceID"), TextNode("0"), CloseTag("InstanceID")>>
    \o ArgsXml(arguments)
    \o <<CloseAction(action), CloseTag("s:Body"), CloseTag("s:Envelope")>>

NoEnvelope == [action |-> None, arguments |-> <<>>, body |-> <<>>]

EIdle == envelope = NoEnvelope

\* _send_soap_request builds the envelope for an action and an argument map
BuildEnvelope(action, arguments) ==
    /\ envelope' = [action |-> action, arguments |-> arguments,
                    body |-> SoapBody(action, arguments)]
    /\ UNCHANGED eothers

ENext == \E action \in Actions, arguments \in ArgMaps : BuildEnvelope(action, arguments)

(***************************************************************************)
(* Part 7: the device cache and the DeviceSelectionScreen.  The prediscover *)
(* thread of the application and the discover thread of the screen each run *)
(* discover_dlna_devices with a callback; the UI task mounts the screen,     *)
(* runs the updates the discover thread dispatches, and handles the keys.    *)
(***************************************************************************)
Renderers == 1..NumRenderers

\* self.selected_device = None, line 294
NoDevice == 0
\* list_view.index is None
NoIndex == -1

\* the devices of a list
Found(list) == {list[i] : i \in DOMAIN list}

\* threading.Lock: acquire succeeds when no task holds the lock; the mutant lets
\* every task in
CanAcquireAlways(lock) == TRUE
CanAcquire(lock) == lock = {}

\* update_device_list, lines 358-395: with devices to show, the ListView is
\* cleared (which resets its index) and gets one row per device of self.devices;
\* without, only the status text changes
UpdateDeviceList(devs) ==
    IF devs # <<>>
    THEN /\ status' = IF discovering
                      THEN "Found N device(s)... (still searching)"
                      ELSE "Found N device(s). Select a TV to stream:"
         /\ list_items' = devs
         /\ list_index' = NoIndex
    ELSE /\ status' = IF discovering
                      THEN "Searching for DLNA devices..."
                      ELSE "No DLNA devices found."
         /\ UNCHANGED <<list_items, list_index>>

\* the class attributes and a screen that does not exist yet; the prediscover
\* thread starts with the application (DLNAShareApp.on_mount, line 626)
LInit ==
    /\ device_cache = <<>>
    /\ cache_lock = {}
    /\ pre_pc = "scan"
    /\ pre_devices = <<>>
    /\ disc_pc = "idle"
    /\ disc_devices = <<>>
    /\ sel_pc = "window"
    /\ self_devices = <<>>
    /\ devices_writer = "ui"
    /\ discovering = FALSE
    /\ list_items = <<>>
    /\ list_index = NoIndex
    /\ selected_device = NoDevice
    /\ shown_selected = NoDevice
    /\ last_step = <<>>
    /\ refreshes = 0
    /\ status = "Discovering DLNA devices..."

\* the application was not started (the specifications of the other parts)
LIdle ==
    /\ device_cache = <<>>
    /\ cache_lock = {}
    /\ pre_pc = "idle"
    /\ pre_devices = <<>>
    /\ disc_pc = "idle"
    /\ disc_devices = <<>>
    /\ sel_pc = "window"
    /\ self_devices = <<>>
    /\ devices_writer = "ui"
    /\ discovering = FALSE
    /\ list_items = <<>>
    /\ list_index = NoIndex
    /\ selected_device = NoDevice
    /\ shown_selected = NoDevice
    /\ last_step = <<>>
    /\ refreshes = 0
    /\ status = "Discovering DLNA devices..."

\* prediscover: discover_dlna_devices appends a device it had not seen and calls
\* cache_device(device, devices.copy()) (lines 207-213 and 649)
PreFound(d) ==
    /\ pre_pc = "scan"
    /\ d \notin Found(pre_devices)
    /\ pre_devices' = Append(pre_devices, d)
    /\ pre_pc' = "cb_acquire"
    /\ UNCHANGED <<device_cache, cache_lock, disc_pc, disc_devices, sel_pc, self_devices,
                   devices_writer, discovering, list_items, list_index,
                   selected_device, shown_selected, last_step, refreshes>>
    /\ UNCHANGED status
    /\ UNCHANGED lothers

\* prediscover: discover_dlna_devices returns its list (line 649)
PreScanEnds ==
    /\ pre_pc = "scan"
    /\ pre_pc' = "fin_acquire"
    /\ UNCHANGED <<device_cache, cache_lock, pre_devices, disc_pc, disc_devices, sel_pc,
                   self_devices, devices_writer, discovering, list_items, list_index,
                   selected_device, shown_selected, last_step, refreshes>>
    /\ UNCHANGED status
    /\ UNCHANGED lothers

\* prediscover: `with DLNAShareApp._cache_lock:` of cache_device (line 643) and
\* of the final store (line 650)
PreAcquire ==
    /\ pre_pc \in {"cb_acquire", "fin_acquire"}
    /\ CanAcquire(cache_lock)
    /\ cache_lock' = cache_lock \cup {"prediscover"}
    /\ pre_pc' = IF pre_pc = "cb_acquire" THEN "cb_write" ELSE "fin_write"
    /\ UNCHANGED <<device_cache, pre_devices, disc_pc, disc_devices, sel_pc,
                   self_devices, devices_writer, discovering, list_items, list_index,
                   selected_device, shown_selected, last_step, refreshes>>
    /\ UNCHANGED status
    /\ UNCHANGED lothers

\* prediscover: _device_cache = all_devices.copy() (line 644) and
\* _device_cache = devices (line 651): the scan step is complete
PreWrite ==
    /\ pre_pc \in {"cb_write", "fin_write"}
    /\ device_cache' = pre_devices
    /\ last_step' = pre_devices
    /\ pre_pc' = IF pre_pc = "cb_write" THEN "cb_release" ELSE "fin_release"
    /\ UNCHANGED <<cache_lock, pre_devices, disc_pc, disc_devices, sel_pc,
                   self_devices, devices_writer, discovering, list_items, list_index,
                   selected_device, shown_selected, refreshes>>
    /\ UNCHANGED status
    /\ UNCHANGED lothers

\* prediscover: the end of the with block
PreRelease ==
    /\ pre_pc \in {"cb_release", "fin_release"}
    /\ cache_lock' = cache_lock \ {"prediscover"}
    /\ pre_pc' = IF pre_pc = "cb_release" THEN "scan" ELSE "done"
    /\ UNCHANGED <<device_cache, pre_devices, disc_pc, disc_devices, sel_pc,
                   self_devices, devices_writer, discovering, list_items, list_index,
                   selected_device, shown_selected, last_step, refreshes>>
    /\ UNCHANGED status
    /\ UNCHANGED lothers

\* UI: a window was chosen and the DeviceSelectionScreen mounted; on_mount enters
\* `with DLNAShareApp._cache_lock:` (line 311)
MountAcquire ==
    /\ sel_pc = "window"
    /\ CanAcquire(cache_lock)
    /\ cache_lock' = cache_lock \cup {"ui"}
    /\ sel_pc' = "m_copy"
    /\ UNCHANGED <<device_cache, pre_pc, pre_devices, disc_pc, disc_devices,
                   self_devices, devices_writer, discovering, list_items, list_index,
                   selected_device, shown_selected, last_step, refreshes>>
    /\ UNCHANGED status
    /\ UNCHANGED lothers

\* UI: on_mount, lines 312-315: a cache that holds devices is copied to
\* self.devices and shown
MountCopy ==
    /\ sel_pc = "m_copy"
    /\ IF device_cache # <<>>
       THEN /\ self_devices' = device_cache
            /\ devices_writer' = "ui"
            /\ UpdateDeviceList(self_devices')
       ELSE UNCHANGED <<self_devices, devices_writer, list_items, list_index, status>>
    /\ sel_pc' = "m_release"
    /\ UNCHANGED <<device_cache, cache_lock, pre_pc, pre_devices, disc_pc, disc_devices,
                   discovering, selected_device, shown_selected, last_step, refreshes>>
    /\ UNCHANGED lothers

\* discover_devices, lines 320-356: nothing while a scan is running, else the
\* flag is set and a discover thread started
DiscoverDevices ==
    IF discovering
    THEN UNCHANGED <<discovering, disc_pc, disc_devices, status>>
    ELSE /\ discovering' = TRUE
         /\ status' = "Discovering DLNA devices..."
         /\ disc_pc' = "scan"
         /\ disc_devices' = <<>>

\* UI: on_mount leaves the with block and calls discover_devices (lines 317-318)
MountRelease ==
    /\ sel_pc = "m_release"
    /\ cache_lock' = cache_lock \ {"ui"}
    /\ DiscoverDevices
    /\ sel_pc' = "ready"
    /\ UNCHANGED <<device_cache, pre_pc, pre_devices, self_devices, devices_writer,
                   list_items, list_index, selected_device, shown_selected, last_step,
                   refreshes>>
    /\ UNCHANGED lothers

\* discover: discover_dlna_devices appends a device and calls
\* on_device_found(device, devices.copy()), lines 331-336: self.devices is
\* assigned in the discover thread, then update_device_list is dispatched to the
\* UI task and waited for
DiscFound(d) ==
    /\ disc_pc = "scan"
    /\ d \notin Found(disc_devices)
    /\ disc_devices' = Append(disc_devices, d)
    /\ self_devices' = disc_devices'
    /\ devices_writer' = "discover"
    /\ disc_pc' = "cb_wait"
    /\ UNCHANGED <<device_cache, cache_lock, pre_pc, pre_devices, sel_pc, discovering,
                   list_items, list_index, selected_device, shown_selected, last_step,
                   refreshes>>
    /\ UNCHANGED status
    /\ UNCHANGED lothers

\* discover: discover_dlna_devices returned, lines 342-346: self.devices is
\* assigned in the discover thread and the final update dispatched
DiscScanEnds ==
    /\ disc_pc = "scan"
    /\ self_devices' = disc_devices
    /\ devices_writer' = "discover"
    /\ disc_pc' = "fin_wait"
    /\ UNCHANGED <<device_cache, cache_lock, pre_pc, pre_devices, disc_devices, sel_pc,
                   discovering, list_items, list_index, selected_device, shown_selected,
                   last_step, refreshes>>
    /\ UNCHANGED status
    /\ UNCHANGED lothers

\* UI: the update_device_list that call_from_thread dispatched runs between two
\* handlers of the UI task and shows self.devices as it is then; the discover
\* thread goes on: its scan step is complete
UpdateDispatched ==
    /\ sel_pc \in {"ready", "pushed"}
    /\ disc_pc \in {"cb_wait", "fin_wait"}
    /\ UpdateDeviceList(self_devices)
    /\ last_step' = disc_devices
    /\ disc_pc' = IF disc_pc = "cb_wait" THEN "scan" ELSE "fin_flag"
    /\ UNCHANGED <<device_cache, cache_lock, pre_pc, pre_devices, disc_devices, sel_pc,
                   self_devices, devices_writer, discovering, selected_device,
                   shown_selected, refreshes>>
    /\ UNCHANGED lothers

\* discover: finally: self.discovering = False (lines 351-352)
DiscFinally ==
    /\ disc_pc = "fin_flag"
    /\ discovering' = FALSE
    /\ disc_pc' = "done"
    /\ UNCHANGED <<device_cache, cache_lock, pre_pc, pre_devices, disc_devices, sel_pc,
                   self_devices, devices_writer, list_items, list_index,
                   selected_device, shown_selected, last_step, refreshes>>
    /\ UNCHANGED status
    /\ UNCHANGED lothers

\* UI: the Refresh key or button, action_refresh (lines 414-416)
ActionRefresh ==
    /\ sel_pc = "ready"
    /\ refreshes < MaxRefreshes
    /\ refreshes' = refreshes + 1
    /\ DiscoverDevices
    /\ UNCHANGED <<device_cache, cache_lock, pre_pc, pre_devices, sel_pc, self_devices,
                   devices_writer, list_items, list_index, selected_device,
                   shown_selected, last_step>>
    /\ UNCHANGED lothers

\* UI: the user moves the highlight of the ListView to one of its rows
Highlight(i) ==
    /\ sel_pc = "ready"
    /\ i \in 0..(Len(list_items) - 1)
    /\ list_index' = i
    /\ UNCHANGED <<device_cache, cache_lock, pre_pc, pre_devices, disc_pc, disc_devices,
                   sel_pc, self_devices, devices_writer, discovering, list_items,
                   selected_device, shown_selected, last_step, refreshes>>
    /\ UNCHANGED status
    /\ UNCHANGED lothers

\* the index action_start_streaming works with, lines 425-427: without a
\* highlighted row and with devices in self.devices it sets list_view.index = 0,
\* which a ListView without rows keeps at None
StartIndex ==
    IF list_index = NoIndex /\ Len(self_devices) > 0 /\ list_items # <<>>
    THEN 0
    ELSE list_index

\* UI: Enter or the Start Streaming button, action_start_streaming (lines
\* 417-439): the device is taken from self.devices at the index of the ListView
\* and a StreamingScreen for it is pushed
ActionStartStreaming ==
    /\ sel_pc = "ready"
    /\ list_index' = StartIndex
    /\ IF StartIndex # NoIndex /\ StartIndex < Len(self_devices)
       THEN /\ selected_device' = self_devices[StartIndex + 1]
            /\ shown_selected' = list_items[StartIndex + 1]
            /\ status' = "Streaming to ..."
            /\ sel_pc' = "pushed"
       ELSE /\ status' = "Please select a device first"
            /\ UNCHANGED <<selected_device, shown_selected, sel_pc>>
    /\ UNCHANGED <<device_cache, cache_lock, pre_pc, pre_devices, disc_pc, disc_devices,
                   self_devices, devices_writer, discovering, list_items, last_step,
                   refreshes>>
    /\ UNCHANGED lothers

LNext ==
    \/ \E d \in Renderers : PreFound(d)
    \/ PreScanEnds
    \/ PreAcquire
    \/ PreWrite
    \/ PreRelease
    \/ MountAcquire
    \/ MountCopy
    \/ MountRelease
    \/ \E d \in Renderers : DiscFound(d)
    \/ DiscScanEnds
    \/ UpdateDispatched
    \/ DiscFinally
    \/ ActionRefresh
    \/ \E i \in 0..(NumRenderers - 1) : Highlight(i)
    \/ ActionStartStreaming

\* start() was not called on the current object
NIdle == start_calls = 0

\* the server part at rest (the specifications of the other parts)
HIdle ==
    /\ hls_files = {}
    /\ route_mpegts = FALSE
    /\ last_request = [filename |-> NoFile, existed |-> FALSE]
    /\ last_response = NoResponse

\* the control point part at rest
CIdle == CInit

\* no session object exists and no StreamingScreen was pushed
SIdle == SInit /\ TInit /\ RInit

InitDiscover == DInit /\ CIdle /\ HIdle /\ SIdle /\ EIdle /\ LIdle /\ NIdle
SpecDiscover == InitDiscover /\ [][DNext]_vars

InitControl == CInit /\ DIdle /\ HIdle /\ SIdle /\ EIdle /\ LIdle /\ NIdle
SpecControl == InitControl /\ [][CNext]_vars

InitServer == HInit /\ DIdle /\ CIdle /\ SIdle /\ EIdle /\ LIdle /\ NIdle
SpecServer == InitServer /\ [][HNext]_vars

\* the output directory may hold the manifest and a segment of an earlier run
InitStreamer ==
    /\ SInit /\ TInit /\ RInit /\ DIdle /\ CIdle /\ EIdle /\ LIdle /\ NIdle
    /\ hls_files \in SUBSET {Manifest, Segment}
    /\ route_mpegts = FALSE
    /\ last_request = [filename |-> NoFile, existed |-> FALSE]
    /\ last_response = NoResponse
SpecStreamer == InitStreamer /\ [][SNext]_vars

InitEnvelope == EIdle /\ DIdle /\ CIdle /\ HIdle /\ SIdle /\ LIdle /\ NIdle
SpecEnvelope == InitEnvelope /\ [][ENext]_vars

\* the application has just started: the prediscover thread runs, the window
\* list is shown
InitDevices == LInit /\ DIdle /\ CIdle /\ HIdle /\ SIdle /\ EIdle /\ NIdle

\* no HLSStreamer exists yet and the output directory is empty
InitStart ==
    /\ SInit /\ TInit /\ RInit /\ DIdle /\ CIdle /\ EIdle /\ LIdle /\ HIdle
    /\ NIdle

\* the one HLSStreamer of the run is constructed
Construct(mpegts) ==
    /\ s_state = "absent"
    /\ CallInit("worker", mpegts)

\* start() called up to MaxStarts times on one object that is never stopped, with
\* the threads and the encoder child of the session running
StartNext ==
    \/ \E mpegts \in BOOLEAN : Construct(mpegts)
    \/ \E bound \in BOOLEAN : StartCall(bound)
    \/ \E t \in Threads : StartSpawn(t)
    \/ \E t \in Threads : StartSpawnFails(t)
    \/ \E t \in Threads : StartPoll(t)
    \/ CaptureCheck
    \/ \E grabbed \in BOOLEAN : CaptureWrite(grabbed)
    \/ CaptureBlocks
    \/ CaptureBrokenPipe
    \/ EncoderReads
    \/ \E f \in AllFiles : EncoderWrite(f)
    \/ EncoderDeleteSegment
    \/ EncoderExit

SpecStart == InitStart /\ [][StartNext]_vars
SpecDevices == InitDevices /\ [][LNext]_vars

\* the user is about to start streaming; the output directory may hold files of
\* an earlier run
InitScreen ==
    /\ SInit /\ TInit /\ RIdle /\ DIdle /\ CIdle /\ EIdle /\ LIdle /\ NIdle
    /\ hls_files \in SUBSET {Manifest, Segment}
    /\ route_mpegts = FALSE
    /\ last_request = [filename |-> NoFile, existed |-> FALSE]
    /\ last_response = NoResponse
SpecScreen == InitScreen /\ [][RNext]_vars

\* the steps the threads of the application take by themselves: everything but
\* the user's key presses and the doings of the encoder child
ProgramSteps ==
    \/ OnMount
    \/ WorkerConstruct
    \/ \E bound \in BOOLEAN : WorkerStart(bound)
    \/ \E fetched \in ScreenFetched : WorkerConnect(fetched)
    \/ WorkerFails
    \/ \E local_ip \in LocalIps, outcome \in HttpOutcomes : WorkerSetUri(local_ip, outcome)
    \/ \E outcome \in HttpOutcomes : WorkerPlay(outcome)
    \/ \E outcome \in HttpOutcomes : UiStopDlna(outcome)
    \/ UiStopStreamer
    \/ UiPop
    \/ UiStopRaised
    \/ \E t \in Threads : CleanGlob(t)
    \/ \E t \in Threads, f \in AllFiles : CleanUnlink(t, f)
    \/ \E t \in Threads, f \in AllFiles : CleanUnlinkMissing(t, f)
    \/ \E t \in Threads : CleanDone(t)
    \/ \E t \in Threads : StartSpawn(t)
    \/ \E t \in Threads : StartSpawnFails(t)
    \/ \E t \in Threads : StartPoll(t)
    \/ \E t \in Threads, exits \in BOOLEAN : StopFfmpeg(t, exits)
    \/ CaptureCheck
    \/ \E grabbed \in BOOLEAN : CaptureWrite(grabbed)
    \/ CaptureBlocks
    \/ CaptureBrokenPipe

\* the threads of the application keep running
SpecScreenFair == SpecScreen /\ WF_vars(ProgramSteps)

\* how many Devices of a list carry the location u
CountDevices(list, u) == Cardinality({i \in DOMAIN list : list[i].location = u})
\* how many callback invocations were made for the location u
CountFound(u) == Cardinality({k \in DOMAIN on_found : on_found[k].device.location = u})

\* C1: in every state of a scan the device list holds at most one Device per
\* LOCATION and the callback was invoked at most once per LOCATION; when the scan
\* has returned, every LOCATION that was announced, by one datagram or by several,
\* has exactly one Device in the result and exactly one callback invocation.
C1_Deduplicates ==
    /\ \A u \in Urls : CountDevices(devices, u) <= 1
    /\ \A u \in Urls : CountFound(u) = IF has_callback THEN CountDevices(devices, u) ELSE 0
    /\ d_result # None =>
          /\ d_result = devices
          /\ \A u \in Urls : CountDevices(d_result, u) = IF heard[u] > 0 THEN 1 ELSE 0

\* C1 witness: a scan with a callback returned after several datagrams announced
\* the same LOCATION, with one Device for it.
C1_Witness ==
    /\ d_result # None
    /\ has_callback
    /\ \E u \in Urls : heard[u] = 2 /\ CountDevices(d_result, u) = 1 /\ CountFound(u) = 1

\* C9: at every moment of a scan, and so when it returns, the time since the
\* receive loop started is below timeout + RecvTimeout + FetchTimeout, however
\* many datagrams arrived and however many new locations they announced.
C9_ReturnsWithinTimeout ==
    elapsed < timeout + RecvTimeout + FetchTimeout

\* C9 witness: a scan returned after its timeout, having fetched the description
\* of every location, one of them in an iteration that began just before the timeout.
C9_Witness ==
    /\ d_result # None
    /\ Len(d_result) = NumLocations
    /\ elapsed > timeout
    /\ elapsed = timeout + RecvTimeout + FetchTimeout - 1


\* C2: a Control Point whose construction left the endpoint unset keeps it unset,
\* has issued no POST, and its last action call, whichever it was, returned failure.
C2_UnresolvedFailsFast ==
    (cp_pc = "ready" /\ cp_unresolved) =>
        /\ control_url = NoUrl
        /\ posts = 0
        /\ last_call # NoCall => ~last_call.ok

\* C2 witness: an action was called on a Control Point that has no endpoint
\* because the document names no AVTransport controlURL.
C2_Witness ==
    /\ cp_pc = "ready"
    /\ cp_unresolved
    /\ cp_document.ok
    /\ last_call.action = "Play"

\* the service blocks of a document whose serviceType is AVTransport
AVTBlocks(doc) == {i \in DOMAIN doc : doc[i].svc = "AVTransport"}

\* C10: after construction from a fetched document with one AVTransport block, the
\* endpoint is the controlURL of that block resolved against the document url, and
\* it is unset when that block has no controlURL.
C10_ControlUrlOfAVTransportBlock ==
    (cp_pc = "ready" /\ cp_document.ok /\ Cardinality(AVTBlocks(cp_document.doc)) = 1) =>
        LET i == CHOOSE i \in AVTBlocks(cp_document.doc) : TRUE
        IN control_url = IF cp_document.doc[i].has_ctl
                         THEN UrlJoin(DeviceLocation, i)
                         ELSE NoUrl


\* C7: a GET for a file name that is not in the output directory at request time
\* is answered with status 404.
C7_MissingFileIsNotFound ==
    (last_request.filename # NoFile /\ ~last_request.existed) =>
        last_response.status = 404

\* C8: every response carries the cross-origin header and the DLNA transfer-mode
\* header.
C8_EveryResponseHasHeaders ==
    last_request.filename # NoFile =>
        {CORS, TransferMode} \subseteq last_response.headers

\* C3: the encoder child is spawned into an output directory without *.ts and
\* *.m3u8 files, whatever happened since the session object was constructed, and
\* once stop() has returned the directory holds no such file.
C3_NoStaleFiles ==
    /\ spawn_files # "stale"
    /\ stop_returned => Cleaned(hls_files) = {}

\* C4: once a stop() that found an encoder child (and closed its stdin) has
\* returned, that child is not running, also when it did not exit within the
\* five seconds stop() waits after terminate().
C4_StoppedEncoderIsDead == (stop_returned /\ stdin_closed) => enc # "alive"

\* C5: no stop() call raises out to its caller, whichever task calls it and
\* whether or not another stop() is under way; stated for the sessions whose
\* encoder child was found by stop() and exited when stop() asked it to.
C5_StopNeverRaises ==
    (stdin_closed /\ ~term_survived) => \A t \in Threads : t_raised[t] # "stop"

\* C6: when the stop request has run to its end, with streamer.stop() having
\* found and stopped the encoder child, and the screen is popped (Stopped), no
\* server thread of the session listens on the HTTP port.
C6_StoppedReleasesPort ==
    (screen = "stopped" /\ stop_returned /\ stdin_closed) => ~port_bound

\* C11: an action call on a control point with a resolved endpoint returns
\* success exactly when the HTTP response status is a 2xx status; a transport
\* error or any other status returns failure.
C11_SuccessIffStatus2xx ==
    (last_call # NoCall /\ control_url # NoUrl) =>
        (last_call.ok <=> last_call.status \in 200..299)

IsPrefix(a, b) == Len(a) <= Len(b) /\ \A i \in DOMAIN a : a[i] = b[i]

\* C13: a scan always ends by returning its device list: after the timeout the
\* result holds one Device for every location that was accepted, and after a
\* socket error (at creation, send or receive) the result still holds every
\* Device that had been found when the error occurred.
C13_ReturnsPartialResults ==
    d_pc = "done" =>
        /\ d_result # None
        /\ d_result = devices
        /\ \A loc \in seen_locations : CountDevices(d_result, loc) = 1
        /\ d_error.occurred => IsPrefix(d_error.devices, d_result)

\* C13 witness: a scan returned after a receive error that came when a Device
\* had already been found.
C13_Witness ==
    /\ d_pc = "done"
    /\ d_error.occurred
    /\ Len(d_error.devices) >= 1
    /\ IsPrefix(d_error.devices, d_result)

\* the text of a url from its last "." on (empty when it has none)
Ending(url) ==
    LET dots == {i \in DOMAIN url : url[i] = "."}
    IN IF dots = {} THEN <<>>
       ELSE SubSeq(url, CHOOSE i \in dots : \A j \in dots : j <= i, Len(url))

\* C14: a SetAVTransportURI call for a url whose last part is ".ts" carries the
\* transport-stream protocol info and one for a url whose last part is ".m3u8"
\* carries the playlist protocol info; the url get_stream_url gives for a
\* continuous-file session selects the former, for a segmented session the latter.
C14_ProtocolInfoFollowsSuffix ==
    /\ last_call.action = "SetAVTransportURI" =>
          /\ Ending(last_call.uri) = <<".", "t", "s">> =>
                last_call.protocol_info = "http-get:*:video/mp2t:*"
          /\ Ending(last_call.uri) = <<".", "m", "3", "u", "8">> =>
                last_call.protocol_info = "http-get:*:application/vnd.apple.mpegurl:*"
    /\ \A ip \in LocalIps :
          /\ ProtocolInfo(GetStreamUrl(ip, TRUE)) = "http-get:*:video/mp2t:*"
          /\ ProtocolInfo(GetStreamUrl(ip, FALSE)) = "http-get:*:application/vnd.apple.mpegurl:*"

\* C14 witness: SetAVTransportURI was called with the url of a continuous-file
\* session and carried the transport-stream protocol info.
C14_Witness ==
    /\ last_call.action = "SetAVTransportURI"
    /\ \E ip \in LocalIps : last_call.uri = GetStreamUrl(ip, TRUE)
    /\ last_call.protocol_info = "http-get:*:video/mp2t:*"

\* how many elements are open just before position i of a body
Depth(body, i) ==
    Cardinality({j \in 1..(i - 1) : body[j].kind \in {"open", "open-u"}})
    - Cardinality({j \in 1..(i - 1) : body[j].kind \in {"close", "close-u"}})

\* the positions of the <u:action> element and of its child elements
ActionAt(body, action) == {i \in DOMAIN body : body[i] = OpenAction(action)}
ChildrenAt(body, name) ==
    {i \in DOMAIN body : body[i] = OpenTag(name) /\ Depth(body, i) = 3}
\* the element that starts at position i is <name>text</name>
IsElement(body, i, name, text) ==
    /\ i + 2 <= Len(body)
    /\ body[i] = OpenTag(name)
    /\ body[i + 1] = TextNode(text)
    /\ body[i + 2] = CloseTag(name)

C16_StartupOrder ==
    /\ ffmpeg_process => server_thread
    /\ capture # "none" => ffmpeg_process
    /\ (last_call.action = "SetAVTransportURI" /\ last_call.status # NoStatus) =>
          (server_thread /\ port_bound)

\* C17: the screen's streaming flag is set, and SetAVTransportURI or Play is
\* called on the control point, only when start() saw the manifest on disk
\* during its polling.
C17_StreamingOnlyWhenReady ==
    /\ streaming => stream_ready
    /\ last_call.action \in {"SetAVTransportURI", "Play"} => stream_ready

\* C18: a step in which set_av_transport_uri or play returns failure to
\* start_streaming leaves the streaming flag false and changes nothing of the
\* pipeline: the running flag, the encoder child, the capture thread, the
\* server thread and the output files stay as they were.
C18_ControlFailureLeavesPipeline ==
    [][(/\ t_pc["worker"] \in {"w_set_uri", "w_play"}
        /\ t_pc'["worker"] = "w_done"
        /\ ~last_call'.ok)
          => /\ ~streaming'
             /\ UNCHANGED <<running, ffmpeg_process, enc, stdin_closed, capture,
                            server_thread, port_bound, stop_called, hls_files>>]_vars

\* C18 witness: play failed on a resolved control point and the start task ended
\* while the session keeps running with a live encoder child and its manifest.
C18_Witness ==
    /\ t_pc["worker"] = "w_done"
    /\ last_call.action = "Play"
    /\ last_call.status = 500
    /\ ~streaming
    /\ running
    /\ enc = "alive"
    /\ Manifest \in hls_files

\* C19: when start_streaming has ended in its exception handler (start() raised),
\* the session is torn down as by a stop: the running flag is false, no encoder
\* child is alive, no server listens and the output files are removed.
C19_ErrorTearsDown ==
    (t_pc["worker"] = "w_done" /\ t_raised["worker"] # None) =>
        /\ ~running
        /\ enc # "alive"
        /\ ~port_bound
        /\ Cleaned(hls_files) = {}

\* C20: whenever the encoder child of a running session has exited, or its
\* capture thread has ended, the application by itself eventually tears the
\* session down: the running flag becomes false and the output files are removed.
C20_PipelineFailureIsFatal ==
    (running /\ (enc = "exited" \/ capture = "ended"))
        ~> (~running /\ Cleaned(hls_files) = {})

C22_StopWhileStartingTearsDown ==
    (screen = "stopped" /\ t_pc["ui"] = "idle" /\ t_pc["worker"] = "w_done"
        /\ t_raised["worker"] = None)
        => (~running /\ (enc = "alive" => term_survived))

\* C23: at most one task is inside the cache lock; the prediscover thread
\* stores into the cache, and the UI task reads and copies it in on_mount, only
\* while holding the lock, so the copy never overlaps a store; and what the cache
\* holds is always a whole snapshot of the prediscover scan.
C23_CacheOnlyUnderLock ==
    /\ Cardinality(cache_lock) <= 1
    /\ pre_pc \in {"cb_write", "cb_release", "fin_write", "fin_release"}
           => cache_lock = {"prediscover"}
    /\ sel_pc \in {"m_copy", "m_release"} => cache_lock = {"ui"}
    /\ IsPrefix(device_cache, pre_devices)

\* the UI task copied a cache that holds devices while the prediscover thread,
\* with a newer snapshot to store, waits for the lock
C23_Witness ==
    /\ sel_pc = "m_release"
    /\ self_devices # <<>>
    /\ self_devices = device_cache
    /\ pre_pc \in {"cb_acquire", "fin_acquire"}
    /\ pre_devices # device_cache

\* C24: whenever no store is in progress, the cache equals the snapshot of the
\* scan step (a device found, or the scan ended) that completed last, whichever
\* of the two scans it belongs to.
C24_CacheIsLastScanStep == cache_lock = {} => device_cache = last_step

\* C25: every assignment to the device list of the screen (self.devices) is
\* made by the UI task.
C25_DevicesAssignedByUiTask == devices_writer = "ui"

\* C30: when action_start_streaming has pushed the StreamingScreen, the device
\* it picked is the one the ListView showed at the index it used.
C30_StartsToShownDevice == sel_pc = "pushed" => selected_device = shown_selected

\* C26: the callback is invoked in the iteration that appends a device, so with
\* a callback there are always as many invocations as devices; the k-th
\* invocation got the k-th device and a list of exactly the first k devices,
\* which ends with that device and is an initial part of the list of the scan
\* and of the list it returns.
C26_OnFoundSnapshots ==
    /\ Len(on_found) = IF has_callback THEN Len(devices) ELSE 0
    /\ \A k \in DOMAIN on_found :
          /\ on_found[k].device = devices[k]
          /\ Len(on_found[k].all_devices) = k
          /\ on_found[k].all_devices[k] = on_found[k].device
          /\ IsPrefix(on_found[k].all_devices, devices)
          /\ d_pc = "done" => IsPrefix(on_found[k].all_devices, d_result)

\* a scan with a callback returned two devices: the first invocation still
\* holds its one-device list
C26_Witness ==
    /\ d_pc = "done"
    /\ has_callback
    /\ Len(on_found) = 2
    /\ Len(d_result) = 2
    /\ Len(on_found[1].all_devices) = 1

\* C27: an iteration that receives a datagram without a LOCATION header changes
\* nothing but the clock (no device, no fetch, no callback) and stays in the
\* loop, and so does an iteration whose recvfrom or processing raised; the
\* devices found before and after either are in the list the scan returns.
C27_BadDatagramsAreSkipped ==
    /\ [][/\ \A dg \in Datagrams, dt \in 0..RecvTimeout :
                (dg.location = NoLocation /\ ReceiveDatagram(dg, dt))
                    => /\ d_pc' = "loop"
                       /\ UNCHANGED <<devices, seen_locations, pending, on_found, d_result>>
          /\ \A dt \in 0..RecvTimeout :
                ReceiveError(dt)
                    => /\ d_pc' = "loop"
                       /\ UNCHANGED <<devices, seen_locations, pending, on_found, d_result>>
         ]_vars
    /\ [](d_pc = "done" =>
            /\ d_result = devices
            /\ d_discarded.occurred => IsPrefix(d_discarded.devices, d_result)
            /\ \A u \in Urls : heard[u] > 0 => CountDevices(d_result, u) = 1)

\* a scan got a datagram without LOCATION and a receive error, found a device
\* after both, and returned it
C27_Witness ==
    /\ d_pc = "done"
    /\ d_discarded.occurred
    /\ d_error.occurred
    /\ Len(d_result) > Len(d_discarded.devices)
    /\ Len(d_result) > Len(d_error.devices)

\* the name the claim gives a device for a description: the text of
\* <friendlyName> if there is one, else that of <modelName> if there is one, else
\* the placeholder, which is also the name after a failed fetch
ClaimedName(desc) ==
    CASE ~desc.ok                              -> Placeholder
      [] desc.friendlyName \notin {None, ""}   -> desc.friendlyName
      [] desc.modelName \notin {None, ""}      -> desc.modelName
      [] OTHER                                 -> Placeholder

\* C28: whatever the description fetch gave (also a failure), the iteration adds
\* one device for the new location, named by the friendlyName text, else the
\* modelName text, else the placeholder, and invokes the callback for it.
C28_NameFallback ==
    [][\A desc \in Descriptions, ft \in 0..FetchTimeout :
          FetchDescription(desc, ft)
              => /\ Len(devices') = Len(devices) + 1
                 /\ devices'[Len(devices')].name = ClaimedName(desc)
                 /\ devices'[Len(devices')].location = pending.location
                 /\ has_callback =>
                       /\ Len(on_found') = Len(on_found) + 1
                       /\ on_found'[Len(on_found')].device = devices'[Len(devices')]
      ]_vars

\* a scan with a callback added one device under the placeholder name and one
\* under its friendlyName
C28_Witness ==
    /\ has_callback
    /\ Len(on_found) = 2
    /\ on_found[1].device.name = Placeholder
    /\ on_found[2].device.name = "tv"

\* C29: the worker calls play() only as the step that follows a
\* set_av_transport_uri which returned True; a set_av_transport_uri that
\* returned False ends the worker, which then makes no further call; and the
\* streaming flag of the screen turns true only in the step in which that play()
\* returned True.
C29_PlayOnlyAfterSetUri ==
    [][/\ \A outcome \in HttpOutcomes :
             WorkerPlay(outcome) => t_pc["worker"] = "w_play"
       /\ (t_pc'["worker"] = "w_play" /\ t_pc["worker"] # "w_play")
             => /\ t_pc["worker"] = "w_set_uri"
                /\ last_call'.action = "SetAVTransportURI"
                /\ last_call'.ok
       /\ (t_pc["worker"] = "w_set_uri" /\ t_pc'["worker"] # "w_set_uri" /\ ~last_call'.ok)
             => t_pc'["worker"] = "w_done"
       /\ (last_call'.action = "Play" /\ last_call.action # "Play")
             => t_pc["worker"] = "w_play"
       /\ t_pc["worker"] = "w_done" => t_pc'["worker"] = "w_done"
       /\ (streaming' /\ ~streaming)
             => /\ t_pc["worker"] = "w_play"
                /\ last_call'.action = "Play"
                /\ last_call'.ok
      ]_vars

\* both calls returned True and the screen is streaming
C29_Witness ==
    /\ t_pc["worker"] = "w_done"
    /\ streaming
    /\ last_call.action = "Play"
    /\ last_call.ok
    /\ posts = 2

\* C31: a start() call that finds the running flag set returns at once and
\* changes nothing of the session (no server thread, no encoder child, no
\* capture thread, no file); and whenever start() spawns an encoder child and a
\* capture thread, the object had neither before, so that over any number of
\* start() calls without a stop() the object owns at most one of each.
C31_SecondStartIsNoOp ==
    /\ [][\A bound \in BOOLEAN :
             (running /\ StartCall(bound))
                 => /\ UNCHANGED <<svars, hls_files, route_mpegts, t_pc, polls>>
                    /\ t_raised'["worker"] = None
         ]_vars
    /\ [][\A t \in Threads :
             StartSpawn(t)
                 => /\ ~ffmpeg_process
                    /\ enc = "none"
                    /\ capture = "none"
                    /\ start_calls >= 1
         ]_vars
    /\ [][(server_thread' /\ ~server_thread) => ~running]_vars

\* start() was called a second time on a session that is running with its
\* encoder child and capture thread, and has returned
C31_Witness ==
    /\ start_calls = 2
    /\ t_pc["worker"] = "idle"
    /\ running
    /\ server_thread
    /\ enc = "alive"
    /\ capture \in {"check", "write", "blocked"}

\* C32: once an interactive scan is over (its thread has ended), the status
\* line of the screen does not say that the search is still going on: the last
\* update_device_list of the scan saw the discovering flag cleared.
C32_StatusAfterScan ==
    disc_pc = "done"
        => status \notin {"Found N device(s)... (still searching)",
                          "Searching for DLNA devices..."}
====
